---- MODULE Spec2Model ----
(***************************************************************************)
(* CHAP challenge/response (src/crypto/chap.c of gPXE/iPXE).               *)
(*                                                                         *)
(* The model keeps a small byte-addressed heap, a set of chap_challenge    *)
(* structures, and one action per exported function of chap.c.  malloc()   *)
(* and free() are the C library's, the digest is the abstract              *)
(* crypto_algorithm capability (a small mixing function stands in for      *)
(* MD5), and assert() is gPXE's diagnostic-only assert: a failed           *)
(* assertion is recorded, control continues.                               *)
(***************************************************************************)
EXTENDS Integers, Sequences, FiniteSets, TLC

\* ---------------------------------------------------------------- bounds
\* Number of bytes of heap available to malloc().
HeapSize == 6
\* Longest data block handed to one chap_update() call.
MaxLen == 2
\* Longest recorded history (bytes fed plus responses) per initialisation.
MaxHist == 3

\* ------------------------------------------------------------- constants
NULL == 0
\* Return status codes of chap_init().
RC_OK == "0"
RC_ENOMEM == "-ENOMEM"
\* "Return value" recorded for the void functions.
RC_VOID == "void"

\* The chap_challenge structures of the callers.
Chaps == {1, 2}
\* The structure a single caller uses.
First == {1}
\* Addresses of struct crypto_algorithm descriptors (never NULL).
Digests == {1, 2}
\* Heap addresses; NULL is not one of them.
Addr == 1..HeapSize
\* Values of a data byte handed to chap_update().
DataByte == {0, 1}

\* ------------------------------------------------ the digest capability
\* Values of one byte of digest context or digest output.
Modulus == 3
Byte == 0..(Modulus - 1)

\* digest->ctxsize
ctxsize(d) == IF d = 1 THEN 2 ELSE 1
\* digest->digestsize
digestsize(d) == IF d = 1 THEN 1 ELSE 2

\* The bytes of memory m at p .. p+n-1, as a sequence.
Load(m, p, n) == [k \in 1..n |-> m[p + k - 1]]
\* Memory m with the sequence s stored at p .. p+Len(s)-1.
Store(m, p, s) ==
    [a \in Addr |-> IF a >= p /\ a < p + Len(s) THEN s[a - p + 1] ELSE m[a]]

\* The digest's initial context value.
InitialContext(d) == [k \in 1..ctxsize(d) |-> (d + k) % Modulus]
\* Mixing one input byte into a context.
Absorb(c, b) == Append(Tail(c), (2 * Head(c) + b + 1) % Modulus)
\* Mixing a block of input bytes into a context, in order.
RECURSIVE AbsorbAll(_, _)
AbsorbAll(c, data) ==
    IF data = <<>> THEN c ELSE AbsorbAll(Absorb(c, Head(data)), Tail(data))
\* The context after finalisation (padding) ...
Finalised(c) == Absorb(c, 0)
\* ... and the digest value read out of it.
Output(d, c) ==
    [j \in 1..digestsize(d) |-> (Finalised(c)[((j - 1) % Len(c)) + 1] + j) % Modulus]

\* digest_init ( digest, ctx )
digest_init(d, ctx, m) == Store(m, ctx, InitialContext(d))
\* digest_update ( digest, ctx, data, len )
digest_update(d, ctx, data, m) ==
    Store(m, ctx, AbsorbAll(Load(m, ctx, ctxsize(d)), data))
\* digest_final ( digest, ctx, out )
digest_final(d, ctx, out, m) ==
    LET c == Load(m, ctx, ctxsize(d))
    IN  Store(Store(m, ctx, Finalised(c)), out, Output(d, c))

\* ------------------------------------------------------------------ state
VARIABLES
    chap,        \* chap[c]: the fields of struct chap_challenge c
    mem,         \* contents of the heap, byte by byte
    live,        \* the blocks malloc() has returned and free() has not taken
    hist,        \* per structure: bytes fed and responses since the last
                 \* successful chap_init()
    init_digest, \* per structure: digest argument of the successful
                 \* chap_init() not yet followed by chap_finish(), else NULL
    misused,     \* per structure: chap_init() was called while initialised
    finished,    \* the structures that chap_finish() has released a block of
                 \* (recorded for the single caller of Spec)
    written,     \* the heap bytes stored to since malloc() returned their
                 \* block; the other bytes of a live block are indeterminate
    last,        \* the call that made the last step
    ub           \* undefined behaviour has occurred (bad free, bad access)

vars ==
    <<chap, mem, live, hist, init_digest, misused, finished, written, last, ub>>

\* A structure as memset ( chap, 0, sizeof ( *chap ) ) leaves it, and as a
\* zero-initialised declaration provides it.
ZeroChap ==
    [digest |-> NULL, digest_context |-> NULL, response |-> NULL,
     response_len |-> 0]

\* History entries.
Fed(b) == [k |-> "update", b |-> b]
Responded == [k |-> "respond", b |-> 0]
RECURSIVE FedAll(_)
FedAll(data) ==
    IF data = <<>> THEN <<>> ELSE <<Fed(Head(data))>> \o FedAll(Tail(data))

\* Data blocks a caller may pass to chap_update().
DataBlocks == UNION {[1..n -> DataByte] : n \in 0..MaxLen}

\* The addresses of a block.
Range(base, len) == {a \in Addr : a >= base /\ a < base + len}
\* The region p .. p+n-1 lies inside one of the blocks.
ValidIn(blocks, p, n) ==
    \E b \in blocks : p >= b.base /\ p + n <= b.base + b.len
\* The region p .. p+n-1 lies inside one live block.
Valid(p, n) == ValidIn(live, p, n)

\* malloc ( len ): the possible results.  Any free run of len bytes may be
\* returned; the allocation may also fail.  The contents of a new block are
\* indeterminate (see Garbage).
malloc(len) ==
    {NULL} \cup
    {base \in Addr :
        /\ base + len - 1 <= HeapSize
        /\ \A b \in live : Range(base, len) \cap Range(b.base, b.len) = {}}

\* The contents of a block malloc() has just returned are indeterminate:
\* any of these fills.
Garbage(m, base, len) ==
    {[a \in Addr |-> IF a \in Range(base, len) THEN g ELSE m[a]] : g \in Byte}

\* free ( state ): the live blocks afterwards.
free(state) == {b \in live : b.base # state}
\* Memory that is not part of a live block cannot be observed by a defined
\* access; it is held at 0.
Scrub(m, blocks) ==
    [a \in Addr |-> IF \E b \in blocks : a \in Range(b.base, b.len)
                    THEN m[a] ELSE 0]
\* free() of a pointer that is neither NULL nor a live block is undefined.
BadFree(state) == state # NULL /\ \A b \in live : b.base # state

Call(op, c, state, rc, dcall, assert_failed) ==
    [op |-> op, chap |-> c, state |-> state, rc |-> rc, dcall |-> dcall,
     assert_failed |-> assert_failed]

Init ==
    /\ chap = [c \in Chaps |-> ZeroChap]
    /\ mem = [a \in Addr |-> 0]
    /\ live = {}
    /\ hist = [c \in Chaps |-> <<>>]
    /\ init_digest = [c \in Chaps |-> NULL]
    /\ misused = [c \in Chaps |-> FALSE]
    /\ finished = {}
    /\ written = {}
    /\ last = Call("none", NULL, NULL, RC_VOID, "none", FALSE)
    /\ ub = FALSE

\* ---------------------------------------------------------------- chap_init
\* Variant: room for the context only.
state_len_ctxonly(d) == ctxsize(d)

\* state_len = ( digest->ctxsize + digest->digestsize )
state_len(d) == ctxsize(d) + digestsize(d)

\* Variant: response_len is taken from the context size.
InitFields_ctxlen(d, state) ==
    [digest |-> d, digest_context |-> state,
     response |-> state + ctxsize(d), response_len |-> ctxsize(d)]

\* The fields chap_init() assigns on success.
InitFields(d, state) ==
    [digest |-> d, digest_context |-> state,
     response |-> state + ctxsize(d), response_len |-> digestsize(d)]

\* The three assertions at the head of chap_init() fail.
init_assert_failed(c) ==
    \/ chap[c].digest # NULL
    \/ chap[c].digest_context # NULL
    \/ chap[c].response # NULL

\* Variant: the digest is bound before the allocation is checked.
chap_init_nomem_bound(c, d, state) ==
    /\ last' = Call("chap_init", c, state, RC_ENOMEM, "none",
                     init_assert_failed(c))
    /\ chap' = [chap EXCEPT ![c].digest = d]
    /\ UNCHANGED <<mem, live, hist, init_digest, written, ub>>

\* if ( ! state ) return -ENOMEM;
chap_init_nomem(c, d, state) ==
    /\ last' = Call("chap_init", c, state, RC_ENOMEM, "none",
                     init_assert_failed(c))
    /\ UNCHANGED <<chap, mem, live, hist, init_digest, written, ub>>

\* Variant: the new context is not passed to digest_init().
chap_init_ok_noinit(c, d, state) ==
    /\ live' = live \cup {[base |-> state, len |-> state_len(d), owner |-> c]}
    /\ chap' = [chap EXCEPT ![c] = InitFields(d, state)]
    /\ mem' \in Garbage(mem, state, state_len(d))
    /\ written' = written \ Range(state, state_len(d))
    /\ hist' = [hist EXCEPT ![c] = <<>>]
    /\ init_digest' = [init_digest EXCEPT ![c] = d]
    /\ last' = Call("chap_init", c, state, RC_OK, "none",
                     init_assert_failed(c))
    /\ UNCHANGED ub

\* Variant: the whole block is cleared before it is used (zalloc).
chap_init_ok_zalloc(c, d, state) ==
    /\ live' = live \cup {[base |-> state, len |-> state_len(d), owner |-> c]}
    /\ chap' = [chap EXCEPT ![c] = InitFields(d, state)]
    /\ mem' = digest_init(chap'[c].digest, chap'[c].digest_context,
                          [a \in Addr |->
                              IF a \in Range(state, state_len(d)) THEN 0
                              ELSE mem[a]])
    /\ written' = written \cup Range(state, state_len(d))
    /\ hist' = [hist EXCEPT ![c] = <<>>]
    /\ init_digest' = [init_digest EXCEPT ![c] = d]
    /\ last' = Call("chap_init", c, state, RC_OK, "digest_init",
                     init_assert_failed(c))
    /\ UNCHANGED ub

\* The rest of chap_init(), with the block at state allocated.
chap_init_ok(c, d, state) ==
    /\ live' = live \cup {[base |-> state, len |-> state_len(d), owner |-> c]}
    /\ chap' = [chap EXCEPT ![c] = InitFields(d, state)]
    /\ \E m \in Garbage(mem, state, state_len(d)) :
           mem' = digest_init(chap'[c].digest, chap'[c].digest_context, m)
    /\ written' = (written \ Range(state, state_len(d))) \cup
                      Range(chap'[c].digest_context, ctxsize(chap'[c].digest))
    /\ hist' = [hist EXCEPT ![c] = <<>>]
    /\ init_digest' = [init_digest EXCEPT ![c] = d]
    /\ last' = Call("chap_init", c, state, RC_OK, "digest_init",
                     init_assert_failed(c))
    /\ ub' = ~ValidIn(live', chap'[c].digest_context, ctxsize(chap'[c].digest))

\* Variant: an already initialised structure is refused with an error.
chap_init_checked(c, d) ==
    \E state \in malloc(state_len(d)) :
        /\ ~ub
        /\ misused' = [misused EXCEPT ![c] = @ \/ init_assert_failed(c)]
        /\ IF init_assert_failed(c)
           THEN /\ last' = Call("chap_init", c, NULL, "-EINVAL", "none", TRUE)
                /\ UNCHANGED <<chap, mem, live, hist, init_digest, written, ub>>
           ELSE IF state = NULL
                THEN chap_init_nomem(c, d, state)
                ELSE chap_init_ok(c, d, state)

chap_init(c, d) ==
    \E state \in malloc(state_len(d)) :
        /\ ~ub
        /\ misused' = [misused EXCEPT ![c] = @ \/ init_assert_failed(c)]
        /\ IF state = NULL
           THEN chap_init_nomem(c, d, state)
           ELSE chap_init_ok(c, d, state)

\* -------------------------------------------------------------- chap_update
\* Variant: no test of chap->digest before the digest is used.
chap_update_unguarded(c, data) ==
    /\ ~ub
    /\ IF Valid(chap[c].digest_context, ctxsize(chap[c].digest))
       THEN /\ mem' = digest_update(chap[c].digest, chap[c].digest_context,
                                    data, mem)
            /\ written' = written \cup Range(chap[c].digest_context,
                                              ctxsize(chap[c].digest))
            /\ UNCHANGED ub
       ELSE /\ ub' = TRUE
            /\ UNCHANGED <<mem, written>>
    /\ hist' = [hist EXCEPT ![c] = @ \o FedAll(data)]
    /\ last' = Call("chap_update", c, NULL, RC_VOID, "digest_update",
                     chap[c].digest = NULL \/ chap[c].digest_context = NULL)
    /\ UNCHANGED <<chap, live, init_digest, misused>>

\* Variant: an update without a digest bound is reported as an error.
chap_update_reporting(c, data) ==
    /\ ~ub
    /\ IF chap[c].digest = NULL
       THEN /\ last' = Call("chap_update", c, NULL, "-EINVAL", "none", TRUE)
            /\ UNCHANGED <<chap, mem, live, hist, init_digest, misused, written, ub>>
       ELSE /\ mem' = digest_update(chap[c].digest, chap[c].digest_context,
                                    data, mem)
            /\ written' = written \cup Range(chap[c].digest_context,
                                              ctxsize(chap[c].digest))
            /\ hist' = [hist EXCEPT ![c] = @ \o FedAll(data)]
            /\ last' = Call("chap_update", c, NULL, RC_VOID, "digest_update",
                             chap[c].digest_context = NULL)
            /\ UNCHANGED <<chap, live, init_digest, misused, ub>>

\* Variant: the length handed to digest_update() is one short.
chap_update_short(c, data) ==
    /\ ~ub
    /\ IF chap[c].digest = NULL
       THEN /\ last' = Call("chap_update", c, NULL, RC_VOID, "none", TRUE)
            /\ UNCHANGED <<chap, mem, live, hist, init_digest, misused, written, ub>>
       ELSE /\ mem' = digest_update(chap[c].digest, chap[c].digest_context,
                                    SubSeq(data, 1, Len(data) - 1), mem)
            /\ written' = written \cup Range(chap[c].digest_context,
                                              ctxsize(chap[c].digest))
            /\ hist' = [hist EXCEPT ![c] = @ \o FedAll(data)]
            /\ last' = Call("chap_update", c, NULL, RC_VOID, "digest_update",
                             chap[c].digest_context = NULL)
            /\ UNCHANGED <<chap, live, init_digest, misused, ub>>

\* Variant: chap->response is handed to digest_update() as the context.
chap_update_response(c, data) ==
    /\ ~ub
    /\ IF chap[c].digest = NULL
       THEN /\ last' = Call("chap_update", c, NULL, RC_VOID, "none", TRUE)
            /\ UNCHANGED <<chap, mem, live, hist, init_digest, misused, written, ub>>
       ELSE /\ IF Valid(chap[c].response, ctxsize(chap[c].digest))
               THEN /\ mem' = digest_update(chap[c].digest, chap[c].response,
                                            data, mem)
                    /\ written' = written \cup Range(chap[c].response,
                                                      ctxsize(chap[c].digest))
                    /\ UNCHANGED ub
               ELSE /\ ub' = TRUE
                    /\ UNCHANGED <<mem, written>>
            /\ hist' = [hist EXCEPT ![c] = @ \o FedAll(data)]
            /\ last' = Call("chap_update", c, NULL, RC_VOID, "digest_update",
                             chap[c].digest_context = NULL)
            /\ UNCHANGED <<chap, live, init_digest, misused>>

chap_update(c, data) ==
    LET failed_assert ==
            chap[c].digest = NULL \/ chap[c].digest_context = NULL
    IN  /\ ~ub
        /\ IF chap[c].digest = NULL
           THEN /\ last' = Call("chap_update", c, NULL, RC_VOID, "none",
                                failed_assert)
                /\ UNCHANGED <<chap, mem, live, hist, init_digest, misused, written, ub>>
           ELSE /\ IF Valid(chap[c].digest_context, ctxsize(chap[c].digest))
                   THEN /\ mem' = digest_update(chap[c].digest,
                                                chap[c].digest_context, data, mem)
                        /\ written' = written \cup
                               Range(chap[c].digest_context,
                                     ctxsize(chap[c].digest))
                        /\ UNCHANGED ub
                   ELSE /\ ub' = TRUE
                        /\ UNCHANGED <<mem, written>>
                /\ hist' = [hist EXCEPT ![c] = @ \o FedAll(data)]
                /\ last' = Call("chap_update", c, NULL, RC_VOID,
                                "digest_update", failed_assert)
                /\ UNCHANGED <<chap, live, init_digest, misused>>

\* ------------------------------------------------------------- chap_respond
\* Variant: the digest is unbound once the response has been computed.
chap_respond_reset(c) ==
    /\ ~ub
    /\ IF chap[c].digest = NULL
       THEN /\ last' = Call("chap_respond", c, NULL, RC_VOID, "none", TRUE)
            /\ UNCHANGED <<chap, mem, live, hist, init_digest, misused, written, ub>>
       ELSE /\ mem' = digest_final(chap[c].digest, chap[c].digest_context,
                                   chap[c].response, mem)
            /\ written' = written \cup
                   Range(chap[c].digest_context, ctxsize(chap[c].digest)) \cup
                   Range(chap[c].response, digestsize(chap[c].digest))
            /\ chap' = [chap EXCEPT ![c].digest = NULL]
            /\ hist' = [hist EXCEPT ![c] = Append(@, Responded)]
            /\ last' = Call("chap_respond", c, NULL, RC_VOID, "digest_final",
                             FALSE)
            /\ UNCHANGED <<live, init_digest, misused, ub>>

\* Variant: the context is initialised again once the response is out.
chap_respond_reinit(c) ==
    /\ ~ub
    /\ IF chap[c].digest = NULL
       THEN /\ last' = Call("chap_respond", c, NULL, RC_VOID, "none", TRUE)
            /\ UNCHANGED <<chap, mem, live, hist, init_digest, misused, written, ub>>
       ELSE /\ mem' = digest_init(chap[c].digest, chap[c].digest_context,
                           digest_final(chap[c].digest, chap[c].digest_context,
                                        chap[c].response, mem))
            /\ written' = written \cup
                   Range(chap[c].digest_context, ctxsize(chap[c].digest)) \cup
                   Range(chap[c].response, digestsize(chap[c].digest))
            /\ hist' = [hist EXCEPT ![c] = Append(@, Responded)]
            /\ last' = Call("chap_respond", c, NULL, RC_VOID, "digest_final",
                             FALSE)
            /\ UNCHANGED <<chap, live, init_digest, misused, ub>>

chap_respond(c) ==
    LET failed_assert ==
            \/ chap[c].digest = NULL
            \/ chap[c].digest_context = NULL
            \/ chap[c].response = NULL
    IN  /\ ~ub
        /\ IF chap[c].digest = NULL
           THEN /\ last' = Call("chap_respond", c, NULL, RC_VOID, "none",
                                failed_assert)
                /\ UNCHANGED <<chap, mem, live, hist, init_digest, misused, written, ub>>
           ELSE /\ IF /\ Valid(chap[c].digest_context, ctxsize(chap[c].digest))
                      /\ Valid(chap[c].response, digestsize(chap[c].digest))
                   THEN /\ mem' = digest_final(chap[c].digest,
                                               chap[c].digest_context,
                                               chap[c].response, mem)
                        /\ written' = written \cup
                               Range(chap[c].digest_context,
                                     ctxsize(chap[c].digest)) \cup
                               Range(chap[c].response,
                                     digestsize(chap[c].digest))
                        /\ UNCHANGED ub
                   ELSE /\ ub' = TRUE
                        /\ UNCHANGED <<mem, written>>
                /\ hist' = [hist EXCEPT ![c] = Append(@, Responded)]
                /\ last' = Call("chap_respond", c, NULL, RC_VOID,
                                "digest_final", failed_assert)
                /\ UNCHANGED <<chap, live, init_digest, misused>>

\* -------------------------------------------------------------- chap_finish
\* Variant: no memset, the fields keep their values.
FinishFields_kept(ch) == ch
\* Variant: only the three pointers are cleared.
FinishFields_pointers(ch) == [ZeroChap EXCEPT !.response_len = ch.response_len]

\* Variant: the two pointers into the block are cleared, the rest is kept.
FinishFields_nodigest(ch) ==
    [ch EXCEPT !.digest_context = NULL, !.response = NULL]
\* Variant: only the pointer handed to free() is cleared.
FinishFields_ctxonly(ch) == [ch EXCEPT !.digest_context = NULL]

\* The fields after memset ( chap, 0, sizeof ( *chap ) ).
FinishFields(ch) == ZeroChap

\* Variant: the block is not handed back to free().
chap_finish_leak(c) ==
    LET state == chap[c].digest_context
    IN  /\ ~ub
        /\ chap' = [chap EXCEPT ![c] = FinishFields(@)]
        /\ hist' = [hist EXCEPT ![c] = <<>>]
        /\ init_digest' = [init_digest EXCEPT ![c] = NULL]
        /\ last' = Call("chap_finish", c, state, RC_VOID, "none", FALSE)
        /\ UNCHANGED <<mem, live, misused, written, ub>>

chap_finish(c) ==
    LET state == chap[c].digest_context
    IN  /\ ~ub
        /\ live' = free(state)
        /\ ub' = BadFree(state)
        /\ chap' = [chap EXCEPT ![c] = FinishFields(@)]
        /\ mem' = Scrub(mem, live')
        /\ written' = {a \in written :
                          \E b \in live' : a \in Range(b.base, b.len)}
        /\ hist' = [hist EXCEPT ![c] = <<>>]
        /\ init_digest' = [init_digest EXCEPT ![c] = NULL]
        /\ last' = Call("chap_finish", c, state, RC_VOID, "none", FALSE)
        /\ UNCHANGED misused

\* ------------------------------------------------------------ specification
\* No digest is bound to structure c.
Uninitialised(c) == chap[c].digest = NULL
Initialised(c) == chap[c].digest # NULL

\* The recorded history of structure c has room for n more entries.
Room(c, n) == Len(hist[c]) + n <= MaxHist

\* chap_finish ( c ) is about to release a block: c is reused from then on.
Finishing(c) ==
    finished' = IF chap[c].digest_context # NULL THEN finished \cup {c}
                ELSE finished

\* One caller, one structure.
Next ==
    \/ \E c \in First, d \in Digests : chap_init(c, d) /\ UNCHANGED finished
    \/ \E c \in First, data \in DataBlocks :
          Room(c, Len(data)) /\ chap_update(c, data) /\ UNCHANGED finished
    \/ \E c \in First :
          Room(c, 1) /\ chap_respond(c) /\ UNCHANGED finished
    \/ \E c \in First : chap_finish(c) /\ Finishing(c)

Spec == Init /\ [][Next]_vars

\* History g is the beginning of history h.
IsPrefix(g, h) == Len(g) <= Len(h) /\ SubSeq(h, 1, Len(g)) = g
\* The callers are taken through the same exchange: with the calls h added,
\* the calls made on structure c since its chap_init() are still the
\* beginning of those made on the other structure, or the other way round.
SameExchange(c, h) ==
    \/ chap[c].digest = NULL
    \/ \A c2 \in Chaps :
          \/ IsPrefix(hist[c] \o h, hist[c2])
          \/ IsPrefix(hist[c2], hist[c] \o h)

\* Two structures in use at the same time, their calls interleaved, by
\* callers that keep chap_init()'s precondition and are taken through the
\* same exchange, each at its own pace and with any digest; either may
\* finish and start again at any time.  Reuse is not recorded here.
NextPair ==
    \/ \E c \in Chaps, d \in Digests :
          Uninitialised(c) /\ chap_init(c, d) /\ UNCHANGED finished
    \/ \E c \in Chaps, data \in DataBlocks :
          /\ Room(c, Len(data))
          /\ SameExchange(c, FedAll(data))
          /\ chap_update(c, data)
          /\ UNCHANGED finished
    \/ \E c \in Chaps :
          /\ Room(c, 1)
          /\ SameExchange(c, <<Responded>>)
          /\ chap_respond(c)
          /\ UNCHANGED finished
    \/ \E c \in Chaps : chap_finish(c) /\ UNCHANGED finished

SpecPair == Init /\ [][NextPair]_vars

\* --------------------------------------------------------------- properties
\* The live blocks that chap_init() calls on structure c allocated.
Owned(c) == {b \in live : b.owner = c}

\* C1: when the allocation inside chap_init() fails, the call returns
\* -ENOMEM and every field of the structure, the heap and the set of live
\* allocations are as they were before the call.
C1_InitNoMemLeavesInstance ==
    [][(last'.op = "chap_init" /\ last'.state = NULL) =>
        /\ last'.rc = RC_ENOMEM
        /\ chap' = chap
        /\ live' = live
        /\ mem' = mem
        /\ ~ub']_vars

\* A failed chap_init() on a structure that is still all zero, holding no
\* allocation.
C1_Witness ==
    /\ last.op = "chap_init"
    /\ last.state = NULL
    /\ last.rc = RC_ENOMEM
    /\ chap[last.chap] = ZeroChap
    /\ Owned(last.chap) = {}

\* C2: chap_finish() on a structure that is all zero (never initialised), or
\* directly after a chap_finish() on the same structure, releases nothing,
\* is defined behaviour and leaves every field as the first call left it.
C2_FinishIdempotent ==
    [][(/\ last'.op = "chap_finish"
        /\ \/ chap[last'.chap] = ZeroChap
           \/ last.op = "chap_finish" /\ last.chap = last'.chap) =>
        /\ chap' = chap
        /\ chap'[last'.chap] = ZeroChap
        /\ live' = live
        /\ mem' = mem
        /\ ~ub']_vars

\* chap_finish() has run on a structure whose digest_context was NULL.
C2_Witness ==
    /\ last.op = "chap_finish"
    /\ last.state = NULL
    /\ chap[last.chap] = ZeroChap
    /\ ~ub

\* C3: as long as chap_init() was only called on an uninitialised structure,
\* the structure owns exactly the block its digest_context points to while
\* it is initialised and no live block once chap_finish() has run, and no
\* block is released twice (free() is never handed a dead pointer).
C3_SingleRelease ==
    \A c \in Chaps :
        ~misused[c] =>
            /\ ~ub
            /\ Cardinality(Owned(c)) <= 1
            /\ Owned(c) =
                 IF chap[c].digest # NULL
                 THEN {[base |-> chap[c].digest_context,
                        len |-> state_len(chap[c].digest), owner |-> c]}
                 ELSE {}

\* chap_finish() has released the block of a structure that was used
\* according to contract (updates and a response in between).
C3_Witness ==
    /\ last.op = "chap_finish"
    /\ last.state # NULL
    /\ ~misused[last.chap]
    /\ Owned(last.chap) = {}
    /\ live = {}

\* C4: after chap_finish(), whatever calls came before, every field of the
\* structure has the value of a freshly declared, zeroed structure.
C4_FinishResetsFields ==
    last.op = "chap_finish" =>
        /\ chap[last.chap].digest = NULL
        /\ chap[last.chap].digest_context = NULL
        /\ chap[last.chap].response = NULL
        /\ chap[last.chap].response_len = 0

\* chap_finish() has run on a structure that was initialised.
C4_Witness ==
    /\ last.op = "chap_finish"
    /\ last.state # NULL
    /\ chap[last.chap] = ZeroChap

\* C5: chap_update() and chap_respond() on a structure with no digest bound
\* invoke no digest operation, touch no memory and change no field.
C5_NoOpWhenUninitialised ==
    [][(/\ last'.op \in {"chap_update", "chap_respond"}
        /\ chap[last'.chap].digest = NULL) =>
        /\ last'.dcall = "none"
        /\ chap' = chap
        /\ mem' = mem
        /\ live' = live
        /\ hist' = hist
        /\ ~ub']_vars

\* chap_update() has returned early on a structure with no digest bound.
C5_Witness ==
    /\ last.op = "chap_update"
    /\ chap[last.chap].digest = NULL
    /\ last.dcall = "none"
    /\ last.assert_failed
    /\ ~ub

\* All four fields of structure c are set, consistently with its digest.
FullyInitialised(c) ==
    /\ chap[c].digest \in Digests
    /\ chap[c].digest_context # NULL
    /\ chap[c].response # NULL
    /\ chap[c].response_len = digestsize(chap[c].digest)

\* C6: every structure is always either all zero (Uninitialised) or fully
\* set (Initialised), never both and never in between; it becomes
\* Initialised only by a chap_init() that returns 0 and Uninitialised only
\* by chap_finish(); chap_update(), chap_respond(), a failed chap_init()
\* and chap_finish() on an uninitialised structure leave the state as it is.
C6_StateMachine ==
    /\ [](\A c \in Chaps : (chap[c] = ZeroChap) # FullyInitialised(c))
    /\ [][\A c \in Chaps :
            /\ (chap[c].digest = NULL /\ chap'[c].digest # NULL) =>
                  (last'.op = "chap_init" /\ last'.rc = RC_OK /\ last'.chap = c)
            /\ (chap[c].digest # NULL /\ chap'[c].digest = NULL) =>
                  (last'.op = "chap_finish" /\ last'.chap = c)
            /\ (last'.op = "chap_init" /\ last'.rc = RC_OK /\ last'.chap = c) =>
                  chap'[c].digest # NULL
            /\ (last'.op = "chap_finish" /\ last'.chap = c) =>
                  chap'[c].digest = NULL]_vars

\* chap_respond() has run on an initialised structure, which still is.
C6_Witness ==
    /\ last.op = "chap_respond"
    /\ last.dcall = "digest_final"
    /\ FullyInitialised(last.chap)
    /\ ~ub

\* C7: while a structure is initialised, its digest is the one passed to
\* the chap_init() that initialised it and response_len is that digest's
\* digestsize; chap_update() and chap_respond() keep both.
C7_ResponseLen ==
    \A c \in Chaps :
        chap[c].digest # NULL =>
            /\ chap[c].digest = init_digest[c]
            /\ chap[c].response_len = digestsize(init_digest[c])

\* A structure initialised with the second digest, after updates and a
\* response.
C7_Witness ==
    /\ last.op = "chap_respond"
    /\ last.dcall = "digest_final"
    /\ init_digest[last.chap] = 2
    /\ chap[last.chap].response_len = 2
    /\ Len(hist[last.chap]) >= 2

\* The data bytes of a history of updates.
Bytes(h) == [i \in 1..Len(h) |-> h[i].b]
\* The history is some updates followed by one response.
UpdatesThenResponse(h) ==
    /\ h # <<>>
    /\ h[Len(h)] = Responded
    /\ \A i \in 1..(Len(h) - 1) : h[i].k = "update"
\* The response of the sequence chap_init(d); chap_update(bytes) (one
\* call); chap_respond() on a structure whose block is at address 1.
Reference(d, bytes) ==
    LET m0 == digest_init(d, 1, [a \in Addr |-> 0])
        m1 == digest_update(d, 1, bytes, m0)
        m2 == digest_final(d, 1, 1 + ctxsize(d), m1)
    IN  Load(m2, 1 + ctxsize(d), digestsize(d))
\* The response buffer of structure c.
Response(c) == Load(mem, chap[c].response, chap[c].response_len)

\* C8: after chap_init(d), any number of chap_update() calls (of any
\* lengths, zero included) and one chap_respond(), the response is the one
\* that a single chap_update() with the concatenated data gives.
C8_Streaming ==
    \A c \in Chaps :
        (chap[c].digest # NULL /\ UpdatesThenResponse(hist[c])) =>
            Response(c) =
                Reference(init_digest[c],
                          Bytes(SubSeq(hist[c], 1, Len(hist[c]) - 1)))

\* Two different bytes were fed and the response then computed.
C8_Witness ==
    \E c \in Chaps :
        /\ chap[c].digest # NULL
        /\ hist[c] = <<Fed(1), Fed(0), Responded>>
        /\ last.op = "chap_respond"
        /\ Response(c) = Reference(chap[c].digest, <<1, 0>>)

\* C9: chap_update() on an initialised structure changes bytes of the
\* digest context only: the four fields, the live blocks and every byte
\* outside the context (the response buffer included) stay as they were.
C9_UpdateFrame ==
    [][(last'.op = "chap_update" /\ chap[last'.chap].digest # NULL) =>
        /\ chap' = chap
        /\ live' = live
        /\ ~ub'
        /\ \A a \in Addr \ Range(chap[last'.chap].digest_context,
                                  ctxsize(chap[last'.chap].digest)) :
               mem'[a] = mem[a]]_vars

\* chap_update() has run on a structure whose response buffer had been
\* written by an earlier chap_respond().
C9_Witness ==
    /\ last.op = "chap_update"
    /\ last.dcall = "digest_update"
    /\ Len(hist[last.chap]) >= 2
    /\ hist[last.chap][1] = Responded
    /\ hist[last.chap][Len(hist[last.chap])].k = "update"

\* C10: two structures initialised with the same digest and given the same
\* calls hold the same response after chap_respond(), wherever their blocks
\* are and whatever either structure was used for before.
C10_Determinism ==
    \A c1, c2 \in Chaps :
        (/\ chap[c1].digest # NULL
         /\ chap[c1].digest = chap[c2].digest
         /\ hist[c1] = hist[c2]
         /\ hist[c1] # <<>>
         /\ hist[c1][Len(hist[c1])] = Responded) =>
            Response(c1) = Response(c2)

\* Two structures at different addresses with the same digest and the same
\* three-call history ending in a response.
C10_Witness ==
    /\ chap[1].digest # NULL
    /\ chap[1].digest = chap[2].digest
    /\ chap[1].digest_context # chap[2].digest_context
    /\ hist[1] = hist[2]
    /\ Len(hist[1]) = 3
    /\ hist[1][1].k = "update"
    /\ hist[1][3] = Responded
    /\ Response(1) = Response(2)

\* The addresses of the response buffer of structure c.
ResponseRange(c) == Range(chap[c].response, chap[c].response_len)
\* chap_respond() has run on structure c since its chap_init().
HasResponded(c) == \E i \in 1..Len(hist[c]) : hist[c][i] = Responded

\* C11: of the calls on an initialised structure only chap_respond() stores
\* to the response buffer: every byte of the buffer has been written if a
\* chap_respond() has run since the chap_init() that initialised the
\* structure, and no byte of it has been written otherwise.
C11_ResponseOnlyByRespond ==
    \A c \in Chaps :
        chap[c].digest # NULL =>
            /\ HasResponded(c) => ResponseRange(c) \subseteq written
            /\ ~HasResponded(c) => ResponseRange(c) \cap written = {}

\* Both cases: an initialised structure after updates only, its response
\* buffer still unwritten while its context has been written.
C11_Witness ==
    \E c \in Chaps :
        /\ chap[c].digest # NULL
        /\ last.op = "chap_update"
        /\ hist[c] = <<Fed(1), Fed(0)>>
        /\ ResponseRange(c) # {}
        /\ ResponseRange(c) \cap written = {}
        /\ Range(chap[c].digest_context, ctxsize(chap[c].digest))
               \subseteq written

\* C12: chap_init() on a structure that is already initialised is not
\* refused and is defined behaviour: the failed assertion is only recorded,
\* the allocation is attempted as usual and the status is 0 when it
\* succeeds (the structure then holds the new block) and -ENOMEM when it
\* fails (the structure is left as it was).
C12_ReinitNotAnError ==
    [][(last'.op = "chap_init" /\ chap[last'.chap].digest # NULL) =>
        /\ ~ub'
        /\ last'.assert_failed
        /\ last'.rc \in {RC_OK, RC_ENOMEM}
        /\ last'.rc = RC_ENOMEM <=> last'.state = NULL
        /\ last'.rc = RC_ENOMEM => chap' = chap
        /\ last'.rc = RC_OK =>
              /\ chap'[last'.chap].digest_context = last'.state
              /\ last'.state # chap[last'.chap].digest_context]_vars

\* chap_init() has returned 0 on a structure that was already initialised.
C12_Witness ==
    /\ last.op = "chap_init"
    /\ last.assert_failed
    /\ last.rc = RC_OK
    /\ misused[last.chap]
    /\ chap[last.chap].digest_context = last.state
    /\ ~ub

\* The digest context of structure c.
Context(c) == Load(mem, chap[c].digest_context, ctxsize(chap[c].digest))
\* The context that the calls of history h leave, starting from context ctx:
\* an update absorbs its byte, a response finalises, nothing re-initialises.
RECURSIVE Replay(_, _)
Replay(ctx, h) ==
    IF h = <<>> THEN ctx
    ELSE Replay(IF Head(h).k = "update" THEN Absorb(ctx, Head(h).b)
                ELSE Finalised(ctx),
                Tail(h))

\* C13: chap_respond() leaves the structure initialised and its context as
\* the digest's finalisation left it; later updates and responses work on
\* that context, and it has the digest's initial value only straight after
\* a successful chap_init().
C13_NoResetByRespond ==
    /\ [](\A c \in Chaps :
            chap[c].digest # NULL =>
                Context(c) = Replay(InitialContext(chap[c].digest), hist[c]))
    /\ [][(last'.op = "chap_respond" /\ chap[last'.chap].digest # NULL) =>
            /\ chap' = chap
            /\ Load(mem', chap[last'.chap].digest_context,
                    ctxsize(chap[last'.chap].digest))
                 = Finalised(Context(last'.chap))]_vars

\* A second chap_respond(), after a chap_respond() and a chap_update(), on a
\* context that is not the digest's initial one.
C13_Witness ==
    \E c \in Chaps :
        /\ chap[c].digest # NULL
        /\ last.op = "chap_respond"
        /\ hist[c] = <<Responded, Fed(1), Responded>>
        /\ Context(c) # InitialContext(chap[c].digest)
        /\ Context(c) # Replay(InitialContext(chap[c].digest), <<Fed(1), Responded>>)

\* The addresses of the digest context of structure c.
ContextRange(c) == Range(chap[c].digest_context, ctxsize(chap[c].digest))

\* C14: while a structure is initialised, its context and its response
\* buffer are the two disjoint parts of one live block of ctxsize +
\* digestsize bytes: the context is the first ctxsize bytes, the response
\* buffer the digestsize bytes from offset ctxsize on; chap_finish()
\* releases that one block, and with it both parts, in one free().
C14_OneBlockTwoRegions ==
    /\ [](\A c \in Chaps :
            chap[c].digest # NULL =>
                \E b \in live :
                    /\ b.base = chap[c].digest_context
                    /\ b.len = ctxsize(chap[c].digest)
                                 + digestsize(chap[c].digest)
                    /\ chap[c].response = b.base + ctxsize(chap[c].digest)
                    /\ chap[c].response_len = digestsize(chap[c].digest)
                    /\ Cardinality(ContextRange(c)) = ctxsize(chap[c].digest)
                    /\ Cardinality(ResponseRange(c))
                          = digestsize(chap[c].digest)
                    /\ ContextRange(c) \cap ResponseRange(c) = {}
                    /\ ContextRange(c) \cup ResponseRange(c)
                          = Range(b.base, b.len))
    /\ [][(last'.op = "chap_finish" /\ chap[last'.chap].digest # NULL) =>
            /\ Cardinality(live \ live') = 1
            /\ live' \subseteq live
            /\ \A b \in live \ live' :
                   ContextRange(last'.chap) \cup ResponseRange(last'.chap)
                     = Range(b.base, b.len)
            /\ ~ub']_vars

\* A structure initialised with the second digest (context of 1 byte,
\* response of 2) in a block that does not start at the bottom of the heap.
C14_Witness ==
    \E c \in Chaps :
        /\ chap[c].digest = 2
        /\ chap[c].digest_context > 1
        /\ chap[c].response = chap[c].digest_context + 1
        /\ Cardinality(ResponseRange(c)) = 2
        /\ HasResponded(c)

\* C15: in every reachable state the three pointers of a structure are all
\* NULL or all set, and when they are set the context and the response
\* buffer they point to lie in a live block, so that the test of
\* chap->digest alone guards the digest calls.
C15_FieldsTogether ==
    \A c \in Chaps :
        /\ (chap[c].digest # NULL) = (chap[c].digest_context # NULL)
        /\ (chap[c].digest # NULL) = (chap[c].response # NULL)
        /\ chap[c].digest # NULL =>
              /\ Valid(chap[c].digest_context, ctxsize(chap[c].digest))
              /\ Valid(chap[c].response, digestsize(chap[c].digest))

\* A failed chap_init() on an initialised structure: the three pointers are
\* still all set and valid.
C15_Witness ==
    /\ last.op = "chap_init"
    /\ last.state = NULL
    /\ chap[last.chap].digest # NULL
    /\ chap[last.chap].digest_context # NULL
    /\ chap[last.chap].response # NULL
    /\ Valid(chap[last.chap].response, digestsize(chap[last.chap].digest))

\* C16: as long as chap_init() was only called on an uninitialised
\* structure, every digest operation a call makes is given a context (and,
\* for digest_final, a response buffer) inside a block that is live at the
\* time of the call; none is applied to released memory.
C16_NoUseAfterRelease ==
    [][(last'.dcall # "none" /\ ~misused'[last'.chap]) =>
        /\ ~ub'
        /\ last'.dcall = "digest_init" =>
              ValidIn(live', chap'[last'.chap].digest_context,
                      ctxsize(chap'[last'.chap].digest))
        /\ last'.dcall = "digest_update" =>
              Valid(chap[last'.chap].digest_context,
                    ctxsize(chap[last'.chap].digest))
        /\ last'.dcall = "digest_final" =>
              /\ Valid(chap[last'.chap].digest_context,
                       ctxsize(chap[last'.chap].digest))
              /\ Valid(chap[last'.chap].response,
                       digestsize(chap[last'.chap].digest))]_vars

\* chap_respond() on a finished structure whose block has been released:
\* no digest call was made.
C16_Witness ==
    /\ last.op = "chap_respond"
    /\ last.dcall = "none"
    /\ last.chap \in finished
    /\ chap[last.chap] = ZeroChap
    /\ ~misused[last.chap]
    /\ live = {}
    /\ ~ub

\* C17: a structure that has been through chap_finish() and is initialised
\* again starts from the digest's initial context and, after updates and a
\* response, holds the digest, the response_len and the response that the
\* same calls give on a fresh structure (Reference): nothing of the earlier
\* use is carried over.
C17_ReuseAfterFinish ==
    \A c \in finished :
        chap[c].digest # NULL =>
            /\ chap[c].digest = init_digest[c]
            /\ chap[c].response_len = Len(Reference(init_digest[c], <<>>))
            /\ hist[c] = <<>> => Context(c) = InitialContext(init_digest[c])
            /\ UpdatesThenResponse(hist[c]) =>
                  Response(c) =
                      Reference(init_digest[c],
                                Bytes(SubSeq(hist[c], 1, Len(hist[c]) - 1)))

\* A reused structure after chap_init(), two updates and a response.
C17_Witness ==
    \E c \in finished :
        /\ chap[c].digest # NULL
        /\ ~misused[c]
        /\ hist[c] = <<Fed(0), Fed(1), Responded>>
        /\ Response(c) = Reference(chap[c].digest, <<0, 1>>)

\* C18: the only failure any call reports is -ENOMEM from chap_init(), and
\* only when its allocation failed: chap_init() returns 0 whenever malloc()
\* returned a block, whichever the digest, and chap_update(),
\* chap_respond() and chap_finish() return nothing in any state.
C18_OnlyAllocationFails ==
    /\ last.op \in {"chap_update", "chap_respond", "chap_finish"} =>
          last.rc = RC_VOID
    /\ last.op = "chap_init" =>
          /\ last.rc \in {RC_OK, RC_ENOMEM}
          /\ last.state # NULL => last.rc = RC_OK
          /\ last.state = NULL => last.rc = RC_ENOMEM

\* chap_init() with the second digest has returned 0 on a structure that
\* was used and finished before.
C18_Witness ==
    /\ last.op = "chap_init"
    /\ last.rc = RC_OK
    /\ last.state # NULL
    /\ last.chap \in finished
    /\ chap[last.chap].digest = 2

TypeOK ==
    /\ \A c \in Chaps :
        /\ chap[c].digest \in Digests \cup {NULL}
        /\ chap[c].digest_context \in Addr \cup {NULL}
        /\ chap[c].response_len \in 0..3
    /\ mem \in [Addr -> Byte]
    /\ ub \in BOOLEAN
====
